---------------------------- MODULE Spec2Model ----------------------------
(***************************************************************************)
(* Model of the Haversine great-circle distance of "Chapter 14.1" (Map     *)
(* Projections and Distance Metrics): the module-level EARTH_RADIUS and    *)
(* the function haversine(point1, point2), executed line by line; and of   *)
(* the style sheets of the graphics notebook (plt.style.use and rcParams), *)
(* which runs in a kernel of its own.                                      *)
(*                                                                         *)
(* Numbers.  The notebook computes in IEEE doubles through numpy.  Here a  *)
(* float is a fixed-point integer, and every arithmetic operation rounds   *)
(* its exact result to the nearest representable value, as IEEE does:      *)
(*   - a coordinate in degrees is an integer number of 1/100 degree;       *)
(*   - an angle in radians is an integer number of 2e-8 rad, so that the   *)
(*     halves "dlat / 2" and "dlon / 2" are exact, as they are in binary   *)
(*     floating point; a trigonometric argument is a number of 1e-8 rad;   *)
(*   - a value in [-1, 1] (a sine, a cosine, a, sqrt(a)) is an integer     *)
(*     number of 1e-8 (Scale); sin and cos are evaluated with a guard      *)
(*     digit (units of 1e-9) and rounded once, like a library function     *)
(*     whose error is little more than half a unit in the last place;      *)
(*   - a distance is an integer number of metres (EARTH_RADIUS 6371.009 km *)
(*     is 6371009 m).                                                      *)
(* TLC's integers are 32 bits wide, so products are formed limb by limb.   *)
(***************************************************************************)
EXTENDS Integers, Sequences, FiniteSets, TLC

----------------------------------------------------------------------------
(* Fixed-point arithmetic *)

Limb == 10000
Scale == Limb * Limb                 \* 1.0 as a value: units of 1e-8
One == Scale
Kilo == 1000
Guard == 10                          \* units of 1e-9 in a unit of 1e-8
NaN == 0 - (20 * Scale)              \* the float "not a number"

Abs(x) == IF x < 0 THEN 0 - x ELSE x
Sgn(x) == IF x < 0 THEN 0 - 1 ELSE 1

\* round(n / d) for d > 0, halves away from zero
DivRound(n, d) == Sgn(n) * ((Abs(n) + d \div 2) \div d)

\* round(x * y / 1e8) for x, y >= 0, without forming x * y: two limbs of 1e4
MulAbs(x, y) ==
  LET xh == x \div Limb
      xl == x % Limb
      yh == y \div Limb
      yl == y % Limb
      A == xh * yl + xl * yh
      B == xl * yl + Scale \div 2
  IN  xh * yh + (A + B \div Limb) \div Limb

\* the rounded product of two numbers in units of 1e-8
MulFix(x, y) == Sgn(x) * Sgn(y) * MulAbs(Abs(x), Abs(y))

\* round(x * y / 1e9) for 0 <= x, y <= 1e9: three limbs of 1e3
MulAbs9(x, y) ==
  LET x2 == x \div (Kilo * Kilo)
      x1 == (x \div Kilo) % Kilo
      x0 == x % Kilo
      y2 == y \div (Kilo * Kilo)
      y1 == (y \div Kilo) % Kilo
      y0 == y % Kilo
      D == x2 * y0 + x1 * y1 + x0 * y2 + Kilo \div 2
      C == x1 * y0 + x0 * y1
      B == x0 * y0
  IN  x2 * y2 * Kilo + x2 * y1 + x1 * y2 + (D + (C + B \div Kilo) \div Kilo) \div Kilo

\* the rounded product of two numbers in units of 1e-9
MulFix9(x, y) == Sgn(x) * Sgn(y) * MulAbs9(Abs(x), Abs(y))

\* The nearest float to v, for |v| < 2.0.  Floats are twice as far apart in
\* [1, 2) as in [1/2, 1): above 1.0 only the even multiples of 1e-8 are values,
\* and a tie goes to the one whose last place is even (a multiple of 4e-8).
Fl(v) ==
  LET m == Abs(v)
  IN  IF m <= One \/ m % 2 = 0 THEN v
      ELSE IF (m + 1) % 4 = 0 THEN Sgn(v) * (m + 1)
      ELSE Sgn(v) * (m - 1)

\* float multiplication, squaring and addition of values (x * y, x ** 2, x + y)
Mul(x, y) == IF x = NaN \/ y = NaN THEN NaN ELSE Fl(MulFix(x, y))
Sqr(x) == Mul(x, x)
Add(x, y) == IF x = NaN \/ y = NaN THEN NaN ELSE Fl(x + y)

----------------------------------------------------------------------------
(* numpy's elementary functions *)

Pi8 == 314159265                     \* pi in units of 1e-8 rad
HalfPi8 == 157079633                 \* pi / 2 in units of 1e-8 rad
HalfPi9 == 1570796327                \* pi / 2 in units of 1e-9 rad
QuarterPi9 == 785398163              \* pi / 4 in units of 1e-9 rad
One9 == Guard * Scale                \* 1.0 in units of 1e-9

\* the Taylor series of sin(x) / x and of cos(x) in z = x^2, in Horner form,
\* from term k on, in units of 1e-9; exact to 1e-9 for |x| <= pi / 4
RECURSIVE SinHorner(_, _)
SinHorner(z, k) ==
  IF k > 6 THEN One9
  ELSE One9 - DivRound(MulFix9(z, SinHorner(z, k + 1)), (2 * k) * (2 * k + 1))

RECURSIVE CosHorner(_, _)
CosHorner(z, k) ==
  IF k > 7 THEN One9
  ELSE One9 - DivRound(MulFix9(z, CosHorner(z, k + 1)), (2 * k - 1) * (2 * k))

\* sin and cos of x, |x| <= pi / 4, all in units of 1e-9
SinT(x) == MulFix9(x, SinHorner(MulFix9(x, x), 1))
CosT(x) == CosHorner(MulFix9(x, x), 1)

\* sin and cos of x in the first quadrant, all in units of 1e-9:
\* sin(x) = cos(pi/2 - x) and cos(x) = sin(pi/2 - x) above pi / 4
SinQ(x) == IF x <= QuarterPi9 THEN SinT(x) ELSE CosT(HalfPi9 - x)
CosQ(x) == IF x <= QuarterPi9 THEN CosT(x) ELSE SinT(HalfPi9 - x)

\* pi - x in units of 1e-9, for x in units of 1e-8 (pi = 3.141592654)
PiMinus(x) == (Pi8 - x) * Guard + 4

\* sin and cos (units of 1e-9) of any x (units of 1e-8 rad), |x| <= 2 pi:
\* reduced to the first quadrant by sin(-x) = -sin(x), sin(x) = -sin(x - pi),
\* sin(x) = sin(pi - x), and likewise for cos
RECURSIVE Sin9(_)
Sin9(x) ==
  IF x < 0 THEN 0 - Sin9(0 - x)
  ELSE IF x > Pi8 THEN 0 - Sin9(x - Pi8)
  ELSE IF x > HalfPi8 THEN SinQ(PiMinus(x))
  ELSE SinQ(Guard * x)

RECURSIVE Cos9(_)
Cos9(x) ==
  IF x < 0 THEN Cos9(0 - x)
  ELSE IF x > Pi8 THEN 0 - Cos9(x - Pi8)
  ELSE IF x > HalfPi8 THEN 0 - CosQ(PiMinus(x))
  ELSE CosQ(Guard * x)

\* np.sin, np.cos: the argument in units of 1e-8 rad, the result a value
np_sin(x) == DivRound(Sin9(x), Guard)
np_cos(x) == DivRound(Cos9(x), Guard)

\* r * r <= a * Scale, with r * r formed limb by limb
SqLeq(r, a) ==
  LET rh == r \div Limb
      rl == r % Limb
      T == 2 * rh * rl + (rl * rl) \div Limb
      q == rh * rh + T \div Limb
      m == (T % Limb) * Limb + ((rl * rl) % Limb)
  IN  q < a \/ (q = a /\ m = 0)

\* a * Scale > r * r + r, that is sqrt(a * Scale) > r + 1/2
SqRoundsUp(r, a) ==
  LET rh == r \div Limb
      rl == r % Limb
      T == 2 * rh * rl + (rl * rl) \div Limb
      q == rh * rh + T \div Limb
      m == (T % Limb) * Limb + ((rl * rl) % Limb)
  IN  a > q + (m + r) \div Scale

\* the largest r < acc + 2^(k+1) with r * r <= a * Scale, bit by bit
RECURSIVE SqrtBits(_, _, _)
SqrtBits(a, acc, k) ==
  IF k < 0 THEN acc
  ELSE LET next == IF SqLeq(acc + 2^k, a) THEN acc + 2^k ELSE acc
       IN  IF next >= 0 THEN SqrtBits(a, next, k - 1) ELSE 0

\* np.sqrt: the correctly rounded square root of a value (from 1.0 on, the
\* nearest even multiple of 1e-8); nan below 0
np_sqrt(a) ==
  IF a = NaN \/ a < 0 THEN NaN
  ELSE LET f == SqrtBits(a, 0, 27)
       IN  IF f >= One THEN f + (f % 2)
           ELSE IF SqRoundsUp(f, a) THEN f + 1 ELSE f

\* the largest y < acc + 2^(k+1), y <= pi / 2, with sin(y) <= s9
RECURSIVE ArcSinBits(_, _, _)
ArcSinBits(s9, acc, k) ==
  IF k < 0 THEN acc
  ELSE LET c == acc + 2^k
           next == IF c <= HalfPi8 /\ Sin9(c) <= s9 THEN c ELSE acc
       IN  IF next >= 0 THEN ArcSinBits(s9, next, k - 1) ELSE 0

\* np.arcsin: the angle in [-pi/2, pi/2] (units of 1e-8 rad) whose sine is the
\* value s; nan outside [-1, 1]
RECURSIVE np_arcsin(_)
np_arcsin(s) ==
  IF s = NaN \/ s > One \/ s < 0 - One THEN NaN
  ELSE IF s < 0 THEN 0 - np_arcsin(0 - s)
  ELSE IF s = One THEN HalfPi8
  ELSE LET s9 == Guard * s
           y == ArcSinBits(s9, 0, 27)
       IN  IF y < HalfPi8 /\ Sin9(y + 1) - s9 < s9 - Sin9(y) THEN y + 1 ELSE y

\* np.radians: x * (pi / 180) for x in 1/100 degree, in units of 2e-8 rad
\* (pi / 18000 rad = 8726.64626 units)
np_radians(x) == Sgn(x) * (Abs(x) * 8726 + (Abs(x) * 64626 + 50000) \div 100000)

\* an angle (units of 2e-8 rad) as a trigonometric argument (units of 1e-8 rad),
\* whole and halved: "x" and "x / 2"
Whole(x) == 2 * x
Half(x) == x

----------------------------------------------------------------------------
(* The notebook: EARTH_RADIUS and haversine *)

\* Mean radius of the earth, 6371.009 km, in metres
MeanEarthRadius == 6371009

\* Unpack with the components read in the order (lat, lon)
Unpack_LatLon(point) == [lon |-> np_radians(point[2]), lat |-> np_radians(point[1])]

\* "lon, lat = [np.radians(x) for x in point]": the point's two components, in
\* the order (lon, lat), converted to radians
Unpack(point) == [lon |-> np_radians(point[1]), lat |-> np_radians(point[2])]

\* Dlat with the latitudes added
Dlat_Sum(lat1, lat2) == lat2 + lat1

\* "dlon = lon2 - lon1" and "dlat = lat2 - lat1"
Dlon(lon1, lon2) == lon2 - lon1
Dlat(lat1, lat2) == lat2 - lat1

\* HaversineA without the factor cos(lat1) * cos(lat2)
HaversineA_NoCos(dlat, dlon, lat1, lat2) ==
  Add(Sqr(np_sin(Half(dlat))), Sqr(np_sin(Half(dlon))))

\* HaversineA with cos(lat1) twice
HaversineA_Lat1Twice(dlat, dlon, lat1, lat2) ==
  Add(Sqr(np_sin(Half(dlat))),
      Mul(Mul(np_cos(Whole(lat1)), np_cos(Whole(lat1))), Sqr(np_sin(Half(dlon)))))

\* HaversineA with the first sine not squared
HaversineA_NoSquare(dlat, dlon, lat1, lat2) ==
  Add(np_sin(Half(dlat)),
      Mul(Mul(np_cos(Whole(lat1)), np_cos(Whole(lat2))), Sqr(np_sin(Half(dlon)))))

\* HaversineA with the cosines on the latitude term
HaversineA_CosOnDlat(dlat, dlon, lat1, lat2) ==
  Add(Mul(Mul(np_cos(Whole(lat1)), np_cos(Whole(lat2))), Sqr(np_sin(Half(dlat)))),
      Sqr(np_sin(Half(dlon))))

\* HaversineA with the cosine of dlat / 2 in place of its sine
HaversineA_CosForSin(dlat, dlon, lat1, lat2) ==
  Add(Sqr(np_cos(Half(dlat))),
      Mul(Mul(np_cos(Whole(lat1)), np_cos(Whole(lat2))), Sqr(np_sin(Half(dlon)))))

\* HaversineA with the angles not halved
HaversineA_WholeAngles(dlat, dlon, lat1, lat2) ==
  Add(Sqr(np_sin(Whole(dlat))),
      Mul(Mul(np_cos(Whole(lat1)), np_cos(Whole(lat2))), Sqr(np_sin(Whole(dlon)))))

\* "a = np.sin(dlat / 2) ** 2 + np.cos(lat1) * np.cos(lat2) * np.sin(dlon / 2) ** 2"
HaversineA(dlat, dlon, lat1, lat2) ==
  Add(Sqr(np_sin(Half(dlat))),
      Mul(Mul(np_cos(Whole(lat1)), np_cos(Whole(lat2))), Sqr(np_sin(Half(dlon)))))

\* HaversineReturn without the factor 2
HaversineReturn_NoTwo(radius, a) ==
  LET y == np_arcsin(np_sqrt(a))
  IN  IF y = NaN THEN NaN ELSE MulFix(radius, y)

\* "return 2 * EARTH_RADIUS * np.arcsin(np.sqrt(a))", in metres
HaversineReturn(radius, a) ==
  LET y == np_arcsin(np_sqrt(a))
  IN  IF y = NaN THEN NaN ELSE MulFix(2 * radius, y)

\* haversine(point1, point2) as a function of its arguments and of the
\* module-level EARTH_RADIUS it reads
haversine(point1, point2, radius) ==
  LET p1 == Unpack(point1)
      p2 == Unpack(point2)
  IN  HaversineReturn(radius,
        HaversineA(Dlat(p1.lat, p2.lat), Dlon(p1.lon, p2.lon), p1.lat, p2.lat))

\* The Haversine distance of the text, for x1 = (lambda1, phi1) and
\* x2 = (lambda2, phi2) in radians:
\*   2 r arcsin(sqrt(sin^2((phi1 - phi2) / 2)
\*                   + cos(phi1) cos(phi2) sin^2((lambda1 - lambda2) / 2)))
HaversineDistance(lambda1, phi1, lambda2, phi2, r) ==
  LET h == Add(Sqr(np_sin(Half(phi1 - phi2))),
               Mul(Mul(np_cos(Whole(phi1)), np_cos(Whole(phi2))),
                   Sqr(np_sin(Half(lambda1 - lambda2)))))
      y == np_arcsin(np_sqrt(h))
  IN  IF y = NaN THEN NaN ELSE MulFix(2 * r, y)

----------------------------------------------------------------------------
(* Inputs *)

LonSteps == 4
LatSteps == 4
MeridianSteps == 60

\* longitudes of [-180, 180] and latitudes of [-90, 90], in 1/100 degree
GridLon == {((36000 * k) \div LonSteps) - 18000 : k \in 0..LonSteps}
GridLat == {((18000 * k) \div LatSteps) - 9000 : k \in 0..LatSteps}

\* the example cell's cities, and a point of latitude 50.31
oslo == <<1075, 5991>>
anchorage == <<-14990, 6122>>
north50 == <<0, 5031>>

Points == {<<lon, lat>> : lon \in GridLon, lat \in GridLat} \cup {oslo, anchorage, north50}

\* points of the prime meridian, pole to pole
Meridian == {<<0, ((18000 * k) \div MeridianSteps) - 9000>> : k \in 0..MeridianSteps}

\* the point diametrically opposite p: (lon + 180, -lat), the longitude kept
\* in [-180, 180]
Antipode(p) == <<IF p[1] > 0 THEN p[1] - 18000 ELSE p[1] + 18000, 0 - p[2]>>

\* one degree, in 1/100 degree
Degree == 100

\* the origin, and the points one and ten degrees north and one degree east of it
origin == <<0, 0>>
north1 == <<0, Degree>>
north10 == <<0, 10 * Degree>>
east1 == <<Degree, 0>>

\* the point one degree north of p, and the point one degree east of p
North(p) == <<p[1], p[2] + Degree>>
East(p) == <<p[1] + Degree, p[2]>>

\* the points that have a point one degree north of them, and the points of
\* the equator that have a point one degree east of them
SouthEnds == {p \in Points : p[2] + Degree <= 9000}
WestEnds == {p \in Points : p[2] = 0 /\ p[1] + Degree <= 18000}

\* values a cell may pass where a point is expected that are not pairs
Malformed == {<<0>>, <<0, 0, 0>>}

\* a local variable that is not bound yet
None == NaN - 1

----------------------------------------------------------------------------
(* The graphics notebook: style sheets and rcParams *)

\* the parameters of rcParams the notebook names: the background colour of the
\* figure, the figure size and the colour cycle
Params == {"figure.facecolor", "figure.figsize", "axes.prop_cycle"}

\* the style sheets the notebook uses
Styles == {"default", "fivethirtyeight", "dark_background", "grayscale"}

\* a style sheet that specifies the background colour and the colour cycle
FaceAndCycle(face, cycle) ==
  [k \in {"figure.facecolor", "axes.prop_cycle"} |->
     IF k = "figure.facecolor" THEN face ELSE cycle]

\* the "default" style sheet specifies every parameter; its figure size is
\* (6.4, 4.8)
DefaultSheet ==
  [k \in Params |->
     IF k = "figure.facecolor" THEN "white"
     ELSE IF k = "figure.figsize" THEN "(6.4, 4.8)"
     ELSE "default"]

\* "A style sheet is nothing more than specification of the parameters in
\* rcParams": the parameters a sheet specifies, with their values ("grayscale"
\* sets "figure.facecolor" to "0.75")
Sheet(name) ==
  CASE name = "default" -> DefaultSheet
    [] name = "fivethirtyeight" -> FaceAndCycle("f0f0f0", "fivethirtyeight")
    [] name = "dark_background" -> FaceAndCycle("black", "dark_background")
    [] name = "grayscale" -> FaceAndCycle("0.75", "grayscale")

\* rcParams after "%matplotlib inline": the default style sheet with the
\* figure size overwritten by the inline backend, (6.0, 4.0)
InlineParams == [DefaultSheet EXCEPT !["figure.figsize"] = "(6.0, 4.0)"]

\* the values a cell assigns to a parameter of rcParams
Assigned(k) ==
  IF k = "figure.facecolor" THEN {"1", "0.75", "black"}
  ELSE IF k = "figure.figsize" THEN {"(12, 8)", "(6.0, 4.0)"}
  ELSE {"grayscale", "default"}

----------------------------------------------------------------------------
(* State *)

VARIABLES
  EARTH_RADIUS,      \* the module-level name, in metres
  pc,                \* "idle", the line of haversine about to run, "returned" or "raised"
  point1, point2,    \* the arguments of the call
  extra,             \* the positional arguments given after point2
  lon1, lat1, lon2, lat2, dlon, dlat, a,    \* the locals of the call
  result,            \* the value returned
  exc,               \* the exception raised
  rcParams,          \* the graphics notebook: matplotlib's rcParams
  cell               \* the graphics notebook: the last statement run on the style

vars == <<EARTH_RADIUS, pc, point1, point2, extra,
          lon1, lat1, lon2, lat2, dlon, dlat, a, result, exc, rcParams, cell>>

styleVars == <<rcParams, cell>>

chapter14Vars == <<EARTH_RADIUS, pc, point1, point2, extra,
                   lon1, lat1, lon2, lat2, dlon, dlat, a, result, exc>>

locals == <<lon1, lat1, lon2, lat2, dlon, dlat, a>>

Init ==
  /\ EARTH_RADIUS = MeanEarthRadius
  /\ pc = "idle"
  /\ point1 = <<>>
  /\ point2 = <<>>
  /\ extra = <<>>
  /\ lon1 = None /\ lat1 = None /\ lon2 = None /\ lat2 = None
  /\ dlon = None /\ dlat = None /\ a = None
  /\ result = None
  /\ exc = "none"
  /\ rcParams = InlineParams
  /\ cell = <<"magic", "inline">>

\* Call with a signature that takes a radius after the two points
Call_AcceptsRadius(p1, p2, ex) ==
  /\ pc = "idle"
  /\ point1' = p1
  /\ point2' = p2
  /\ extra' = ex
  /\ pc' = "line65"
  /\ exc' = "none"
  /\ UNCHANGED <<styleVars, EARTH_RADIUS, lon1, lat1, lon2, lat2, dlon, dlat, a, result>>

\* A cell calls haversine(p1, p2) or haversine(p1, p2, radius): the signature
\* takes two positional arguments, a third is a TypeError raised before the body
Call(p1, p2, ex) ==
  /\ pc = "idle"
  /\ point1' = p1
  /\ point2' = p2
  /\ extra' = ex
  /\ IF ex = <<>>
       THEN pc' = "line65" /\ exc' = "none"
       ELSE pc' = "raised" /\ exc' = "TypeError"
  /\ UNCHANGED <<styleVars, EARTH_RADIUS, locals, result>>

\* Line65 with the conversion to radians written back into point1
Line65_InPlace ==
  /\ pc = "line65"
  /\ IF Len(point1) = 2
       THEN /\ lon1' = Unpack(point1).lon
            /\ lat1' = Unpack(point1).lat
            /\ point1' = <<lon1', lat1'>>
            /\ pc' = "line66"
            /\ exc' = exc
       ELSE /\ pc' = "raised"
            /\ exc' = "ValueError"
            /\ UNCHANGED <<lon1, lat1, point1>>
  /\ UNCHANGED <<styleVars, EARTH_RADIUS, point2, extra, lon2, lat2, dlon, dlat, a, result>>

\* the point's longitude is in [-180, 180] and its latitude in [-90, 90]
InRange(p) == Abs(p[1]) <= 18000 /\ Abs(p[2]) <= 9000

\* Line65 with a check of the ranges of the coordinates
Line65_Validates ==
  /\ pc = "line65"
  /\ IF Len(point1) = 2 /\ InRange(point1) /\ (Len(point2) = 2 => InRange(point2))
       THEN /\ lon1' = Unpack(point1).lon
            /\ lat1' = Unpack(point1).lat
            /\ pc' = "line66"
            /\ exc' = exc
       ELSE /\ pc' = "raised"
            /\ exc' = "ValueError"
            /\ UNCHANGED <<lon1, lat1>>
  /\ UNCHANGED <<styleVars, EARTH_RADIUS, point1, point2, extra, lon2, lat2, dlon, dlat, a, result>>

\* Line65 with both points required to be pairs before either is unpacked
Line65_ChecksBoth ==
  /\ pc = "line65"
  /\ IF Len(point1) = 2 /\ Len(point2) = 2
       THEN /\ lon1' = Unpack(point1).lon
            /\ lat1' = Unpack(point1).lat
            /\ pc' = "line66"
            /\ exc' = exc
       ELSE /\ pc' = "raised"
            /\ exc' = "ValueError"
            /\ UNCHANGED <<lon1, lat1>>
  /\ UNCHANGED <<styleVars, EARTH_RADIUS, point1, point2, extra, lon2, lat2, dlon, dlat, a, result>>

\* lon1, lat1 = [np.radians(x) for x in point1]
Line65 ==
  /\ pc = "line65"
  /\ IF Len(point1) = 2
       THEN /\ lon1' = Unpack(point1).lon
            /\ lat1' = Unpack(point1).lat
            /\ pc' = "line66"
            /\ exc' = exc
       ELSE /\ pc' = "raised"
            /\ exc' = "ValueError"
            /\ UNCHANGED <<lon1, lat1>>
  /\ UNCHANGED <<styleVars, EARTH_RADIUS, point1, point2, extra, lon2, lat2, dlon, dlat, a, result>>

\* lon2, lat2 = [np.radians(x) for x in point2]
Line66 ==
  /\ pc = "line66"
  /\ IF Len(point2) = 2
       THEN /\ lon2' = Unpack(point2).lon
            /\ lat2' = Unpack(point2).lat
            /\ pc' = "line69"
            /\ exc' = exc
       ELSE /\ pc' = "raised"
            /\ exc' = "ValueError"
            /\ UNCHANGED <<lon2, lat2>>
  /\ UNCHANGED <<styleVars, EARTH_RADIUS, point1, point2, extra, lon1, lat1, dlon, dlat, a, result>>

\* dlon = lon2 - lon1
Line69 ==
  /\ pc = "line69"
  /\ dlon' = Dlon(lon1, lon2)
  /\ pc' = "line70"
  /\ UNCHANGED <<styleVars, EARTH_RADIUS, point1, point2, extra, lon1, lat1, lon2, lat2, dlat, a, result, exc>>

\* dlat = lat2 - lat1
Line70 ==
  /\ pc = "line70"
  /\ dlat' = Dlat(lat1, lat2)
  /\ pc' = "line71"
  /\ UNCHANGED <<styleVars, EARTH_RADIUS, point1, point2, extra, lon1, lat1, lon2, lat2, dlon, a, result, exc>>

\* a = np.sin(dlat / 2) ** 2 + np.cos(lat1) * np.cos(lat2) * np.sin(dlon / 2) ** 2
Line71 ==
  /\ pc = "line71"
  /\ a' = HaversineA(dlat, dlon, lat1, lat2)
  /\ pc' = "line72"
  /\ UNCHANGED <<styleVars, EARTH_RADIUS, point1, point2, extra, lon1, lat1, lon2, lat2, dlon, dlat, result, exc>>

\* Line72 with the radius the name had when haversine was defined
Line72_RadiusAtDefinition ==
  /\ pc = "line72"
  /\ result' = HaversineReturn(MeanEarthRadius, a)
  /\ pc' = "returned"
  /\ UNCHANGED <<styleVars, EARTH_RADIUS, point1, point2, extra, locals, exc>>

\* return 2 * EARTH_RADIUS * np.arcsin(np.sqrt(a))
Line72 ==
  /\ pc = "line72"
  /\ result' = HaversineReturn(EARTH_RADIUS, a)
  /\ pc' = "returned"
  /\ UNCHANGED <<styleVars, EARTH_RADIUS, point1, point2, extra, locals, exc>>

\* radii a cell may bind EARTH_RADIUS to: the mean radius in kilometres
\* (6371.009), the mean radius in miles (3958.761), and 1
Radii == {MeanEarthRadius, 3958761, Kilo}

\* "EARTH_RADIUS = r": a cell, or another thread, binds the module-level name
\* again, between two calls of haversine or while one is running
Rebind(r) ==
  /\ EARTH_RADIUS' = r
  /\ UNCHANGED <<styleVars, pc, point1, point2, extra, locals, result, exc>>

\* The cell is over: the frame of the call is gone, the next cell may run
Finish ==
  /\ pc \in {"returned", "raised"}
  /\ pc' = "idle"
  /\ point1' = <<>>
  /\ point2' = <<>>
  /\ extra' = <<>>
  /\ lon1' = None /\ lat1' = None /\ lon2' = None /\ lat2' = None
  /\ dlon' = None /\ dlat' = None /\ a' = None
  /\ result' = None
  /\ exc' = "none"
  /\ UNCHANGED <<styleVars, EARTH_RADIUS>>

Next ==
  \/ \E p1 \in Points : \E p2 \in Points \cup {Antipode(p1)} : Call(p1, p2, <<>>)
  \/ \E p1 \in Meridian : Call(p1, Antipode(p1), <<>>)
  \/ \E p1 \in SouthEnds : Call(p1, North(p1), <<>>)
  \/ \E p1 \in WestEnds : Call(p1, East(p1), <<>>)
  \/ \E p2 \in Meridian \cup {north1, north10} : Call(origin, p2, <<>>)
  \/ \E p1 \in {oslo} \cup Malformed : \E p2 \in {anchorage} \cup Malformed :
       \E ex \in {<<>>, <<MeanEarthRadius>>, <<1>>} : Call(p1, p2, ex)
  \/ Line65
  \/ Line66
  \/ Line69
  \/ Line70
  \/ Line71
  \/ Line72
  \/ Finish

Spec == Init /\ [][Next]_vars

\* The notebook with cells that bind EARTH_RADIUS again at any moment
Places == {oslo, anchorage, origin, north1, east1}

NextRebind ==
  \/ \E p1 \in Places \cup Malformed : \E p2 \in Places \cup Malformed :
       \E ex \in {<<>>, <<MeanEarthRadius>>} : Call(p1, p2, ex)
  \/ \E r \in Radii : Rebind(r)
  \/ Line65
  \/ Line66
  \/ Line69
  \/ Line70
  \/ Line71
  \/ Line72
  \/ Finish

SpecRebind == Init /\ [][NextRebind]_vars

\* pairs of numbers that are not coordinates: a longitude outside [-180, 180]
\* or a latitude outside [-90, 90]
OutOfRange ==
  {<<27000, 0>>, <<-27000, 4500>>, <<0, 12000>>, <<0, 9130>>, <<9000, -18000>>,
   <<30000, 13500>>, <<-18100, -9100>>}

\* The notebook with cells that pass any pairs of numbers
Numbers == OutOfRange \cup {oslo, origin, <<18000, 6000>>, <<18000, 8870>>}

NextNumbers ==
  \/ \E p1 \in Numbers : \E p2 \in Numbers : Call(p1, p2, <<>>)
  \/ \E p1 \in OutOfRange \cup Malformed : \E p2 \in OutOfRange \cup Malformed :
       \E ex \in {<<>>, <<MeanEarthRadius>>} : Call(p1, p2, ex)
  \/ Line65
  \/ Line66
  \/ Line69
  \/ Line70
  \/ Line71
  \/ Line72
  \/ Finish

SpecNumbers == Init /\ [][NextNumbers]_vars

----------------------------------------------------------------------------
(* The graphics notebook: its cells *)

\* StyleUse with "default", which is not one of the available styles listed,
\* specifying nothing
StyleUse_DefaultNotListed(name) ==
  /\ rcParams' = [k \in Params |->
                    IF name # "default" /\ k \in DOMAIN Sheet(name)
                      THEN Sheet(name)[k] ELSE rcParams[k]]
  /\ cell' = <<"use", name>>
  /\ UNCHANGED chapter14Vars

\* plt.style.use(name): every parameter the sheet specifies takes the sheet's
\* value, the others keep theirs
StyleUse(name) ==
  /\ rcParams' = [k \in Params |->
                    IF k \in DOMAIN Sheet(name) THEN Sheet(name)[k] ELSE rcParams[k]]
  /\ cell' = <<"use", name>>
  /\ UNCHANGED chapter14Vars

\* rcParams[k] = v
SetItem(k, v) ==
  /\ rcParams' = [rcParams EXCEPT ![k] = v]
  /\ cell' = <<"set", k>>
  /\ UNCHANGED chapter14Vars

NextStyle ==
  \/ \E name \in Styles : StyleUse(name)
  \/ \E k \in Params : \E v \in Assigned(k) : SetItem(k, v)

SpecStyle == Init /\ [][NextStyle]_vars

----------------------------------------------------------------------------
(* Properties *)

\* pi * EARTH_RADIUS in metres: half the circumference of the sphere
PiRadius == MulFix(Pi8, EARTH_RADIUS)

\* the two pairs name one point of the sphere: they are equal, or have the
\* same latitude and longitudes -180 and 180, or are both at the same pole
SamePlace(p, q) ==
  \/ p = q
  \/ p[2] = q[2] /\ Abs(p[1] - q[1]) = 36000
  \/ p[2] = q[2] /\ Abs(p[2]) = 9000

AntipodalTol == 2000                 \* metres
ZeroTol == 1                         \* metres
ExampleTol == 1000                   \* metres
FewKm == 10000                       \* metres

\* C1: whenever haversine returns, the value is the Haversine distance of the
\* text, 2 r arcsin(sqrt(sin^2((phi1 - phi2)/2) + cos(phi1) cos(phi2)
\* sin^2((lambda1 - lambda2)/2))), of the two points converted to radians,
\* with r = 6371.009 km.
C1_AgreesWithFormula ==
  pc = "returned" =>
    result = HaversineDistance(np_radians(point1[1]), np_radians(point1[2]),
                               np_radians(point2[1]), np_radians(point2[2]),
                               MeanEarthRadius)

C1_Witness ==
  /\ pc = "returned"
  /\ point1 = oslo
  /\ point2 = anchorage
  /\ result > 0

\* C2: the distance from a point to itself is exactly 0.
C2_SelfDistanceZero ==
  pc = "returned" /\ point1 = point2 => result = 0

C2_Witness ==
  /\ pc = "returned"
  /\ point1 = oslo
  /\ point2 = oslo

\* C3: the value returned for (point1, point2) is the value haversine gives
\* for (point2, point1).
C3_Symmetric ==
  pc = "returned" => result = haversine(point2, point1, EARTH_RADIUS)

C3_Witness ==
  /\ pc = "returned"
  /\ point1 = anchorage
  /\ point2 = oslo
  /\ result > 0

\* C4: the value returned is a number, not nan, and is at least 0.
C4_NonNegative ==
  pc = "returned" => result # NaN /\ result >= 0

C4_Witness ==
  /\ pc = "returned"
  /\ dlat < 0
  /\ dlon < 0
  /\ result > 0

C7_Antipodal ==
  pc = "returned" /\ point2 = Antipode(point1) =>
    result # NaN /\ Abs(result - PiRadius) <= AntipodalTol

C7_Witness ==
  /\ pc = "returned"
  /\ point1 = <<0, 0>>
  /\ point2 = <<18000, 0>>
  /\ result = PiRadius

\* C8: no value returned exceeds pi * radius, the distance of an antipodal pair.
C8_AtMostPiRadius ==
  pc = "returned" => result # NaN /\ result <= PiRadius

C8_Witness ==
  /\ pc = "returned"
  /\ point2 # Antipode(point1)
  /\ 2 * result > PiRadius

\* C9: for in-range coordinates the value a passed to sqrt lies in [0, 1].
C9_AInUnitInterval ==
  a # None => a # NaN /\ 0 <= a /\ a <= One

\* C10, as stated: for Oslo (10.75, 59.91) and Anchorage (-149.90, 61.22) the
\* value returned is 6490 km to within a few km.
C10_About6490 ==
  pc = "returned" /\ point1 = oslo /\ point2 = anchorage =>
    Abs(result - 6490 * Kilo) <= FewKm

\* C10, amended: for Oslo and Anchorage the value returned is 6444 km to
\* within 1 km (6444.075 km).
C10_About6444 ==
  pc = "returned" /\ point1 = oslo /\ point2 = anchorage =>
    result # NaN /\ Abs(result - 6444 * Kilo) <= ExampleTol

C10_Witness ==
  /\ pc = "returned"
  /\ point1 = oslo
  /\ point2 = anchorage
  /\ result = 6444075

\* radius * pi / 180 in metres: the length of an arc of one degree
OneDegreeArc == MulFix(Whole(np_radians(Degree)), EARTH_RADIUS)

DegreeTol == 10                      \* metres

\* C11: two points of one meridian one degree of latitude apart, whatever the
\* meridian and the latitude, and two points of the equator one degree of
\* longitude apart, are at distance radius * pi / 180 (111.195 km), to within
\* 10 m.
C11_OneDegreeArc ==
  pc = "returned" /\ (point2 = North(point1) \/ (point1[2] = 0 /\ point2 = East(point1))) =>
    result # NaN /\ Abs(result - OneDegreeArc) <= DegreeTol

C11_Witness ==
  /\ pc = "returned"
  /\ point1 = <<9000, 4500>>
  /\ point2 = <<9000, 4600>>
  /\ Abs(result - 111195) <= DegreeTol

\* the latitudes from 0 to 90 of the points called from the origin
NorthLats == {p[2] : p \in {q \in Meridian \cup {north1, north10} : q[2] >= 0}}

C14_NoSideEffects ==
  [][pc # "idle" /\ pc' # "idle" =>
       /\ point1' = point1
       /\ point2' = point2
       /\ extra' = extra
       /\ EARTH_RADIUS' = EARTH_RADIUS]_vars

C14_Witness ==
  /\ pc = "returned"
  /\ point1 = oslo
  /\ point2 = anchorage
  /\ EARTH_RADIUS = MeanEarthRadius
  /\ lon1 = np_radians(oslo[1])
  /\ lat2 = np_radians(anchorage[2])
  /\ result # None

\* the call was given two points that are pairs of numbers, and nothing more
NumericCall == extra = <<>> /\ Len(point1) = 2 /\ Len(point2) = 2

\* C15: a call with two pairs of numbers, in range or not, never raises: it is
\* never in the raised state, no exception is set, the ranges are not checked
\* (the locals are bound from the second line on whatever the coordinates are),
\* and once returned it has a value (a number or nan).
C15_NeverRaises ==
  NumericCall =>
    /\ pc # "raised"
    /\ exc = "none"
    /\ pc \notin {"idle", "line65"} => lon1 # None /\ lat1 # None
    /\ pc \notin {"idle", "line65", "line66"} => lon2 # None /\ lat2 # None
    /\ pc = "returned" => a # None /\ result # None

C15_Witness ==
  /\ pc = "returned"
  /\ point1 = <<30000, 13500>>
  /\ point2 = <<-27000, 4500>>
  /\ ~InRange(point1)
  /\ ~InRange(point2)
  /\ result > 0

\* C16: a point is read as (longitude, latitude): the first component is
\* bound to lon and the second to lat; and two points whose second component
\* is 90, or is -90, are at distance 0, to within a metre, whatever their first
\* components are.
C16_LonLatOrder ==
  /\ lon1 # None => lon1 = np_radians(point1[1]) /\ lat1 = np_radians(point1[2])
  /\ lon2 # None => lon2 = np_radians(point2[1]) /\ lat2 = np_radians(point2[2])
  /\ pc = "returned" /\ point1[2] = point2[2] /\ Abs(point1[2]) = 9000 =>
       result # NaN /\ 0 <= result /\ result <= ZeroTol

C16_Witness ==
  /\ pc = "returned"
  /\ point1 = <<0, 9000>>
  /\ point2 = <<9000, 9000>>
  /\ dlon # 0
  /\ result <= ZeroTol

\* third points of a triangle
Via == {origin, oslo, <<0, 9000>>}

TriangleTol == 10                 \* metres

\* C17: the value returned for two in-range points is at most the sum of the
\* values haversine gives from the first to a third point and from the third to
\* the second, to within the tolerance.
C17_TriangleInequality ==
  pc = "returned" /\ InRange(point1) /\ InRange(point2) =>
    \A q \in Via :
      result <= haversine(point1, q, EARTH_RADIUS)
                  + haversine(q, point2, EARTH_RADIUS) + TriangleTol

C17_Witness ==
  /\ pc = "returned"
  /\ point1 = <<-9000, 0>>
  /\ point2 = <<9000, 0>>
  /\ result > 0
  /\ Abs(haversine(point1, origin, EARTH_RADIUS)
           + haversine(origin, point2, EARTH_RADIUS) - result) <= TriangleTol

\* C18: a call whose first point is not a pair raises ValueError at the first
\* unpacking, with no local bound, the second point not looked at, and nothing
\* returned; a call whose first point is a pair and whose second is not raises
\* ValueError at the second unpacking, after lon1 and lat1 are bound, with no
\* difference, no a and no value computed.
C18_FailsAtUnpacking ==
  /\ extra = <<>> /\ pc \notin {"idle", "line65"} /\ Len(point1) # 2 =>
       /\ pc = "raised"
       /\ exc = "ValueError"
       /\ lon1 = None /\ lat1 = None /\ lon2 = None /\ lat2 = None
       /\ dlon = None /\ dlat = None /\ a = None /\ result = None
  /\ extra = <<>> /\ pc \notin {"idle", "line65", "line66"}
       /\ Len(point1) = 2 /\ Len(point2) # 2 =>
       /\ pc = "raised"
       /\ exc = "ValueError"
       /\ lon1 = np_radians(point1[1]) /\ lat1 = np_radians(point1[2])
       /\ lon2 = None /\ lat2 = None
       /\ dlon = None /\ dlat = None /\ a = None /\ result = None
  /\ pc = "returned" => Len(point1) = 2 /\ Len(point2) = 2

C18_Witness ==
  /\ pc = "raised"
  /\ exc = "ValueError"
  /\ extra = <<>>
  /\ point1 = oslo
  /\ point2 = <<0, 0, 0>>
  /\ lon1 # None
  /\ lon2 = None

=============================================================================
